---- MODULE Spec2Model ----
(***************************************************************************)
(* Remediation-status consistency engine of the automated security         *)
(* response layer: source/layer/remediation_data_service.py,               *)
(* history_repository.py and findings_repository.py, run by concurrent     *)
(* invocations against a DynamoDB-like store with atomic conditional       *)
(* multi-item writes.                                                      *)
(***************************************************************************)
EXTENDS Integers, Sequences, FiniteSets, TLC

\* ------------------------------------------------------------------ bounds
\* Number of invocations of update_remediation_status_and_history that may
\* run (concurrently or one after the other) in one behaviour.
MaxInvocations == 2

\* Number of store calls in one behaviour that meet a fault (an error of the
\* store, or a transaction conflict on an item).
MaxFaults == 1

\* ------------------------------------------------------- input value sets
FindingTypes == {"T"}
FindingIds == {"", "f1"}
ExecutionIds == {"e1", "e2"}
Statuses == {"IN_PROGRESS", "SUCCESS"}
NoValue == ""
Errors == {NoValue}
AccountIds == {"req-acct"}

Invocations == 1..MaxInvocations

\* history_repository.py: FINDING_ID_EXECUTION_ID_KEY
FINDING_ID_EXECUTION_ID_KEY == "findingId#executionId"

\* RemediationUpdateRequest (dataclass); the optional fields the callers of
\* this model leave unset are None, modelled as the empty string (both are
\* falsy in every test the code applies to them).
RemediationUpdateRequest ==
    [finding_id : FindingIds, execution_id : ExecutionIds,
     remediation_status : Statuses, finding_type : FindingTypes,
     error : Errors, account_id : AccountIds,
     resource_id : {NoValue}, resource_type : {NoValue},
     severity : {NoValue}, region : {NoValue},
     lastUpdatedBy : {"Automated"}]

\* The requests the callers hand to the engine: execution e1 reporting
\* either status, execution e2 reporting SUCCESS, and one request without
\* a finding id.
Requests ==
    { r \in RemediationUpdateRequest :
        /\ r.execution_id = "e2" => r.remediation_status = "SUCCESS"
        /\ r.finding_id = "" => r.execution_id = "e2" }

\* Mutant of validate: only finding_id is required.
validate_FindingIdOnly(request) == ~ (request.finding_id = "")

\* RemediationUpdateRequest.validate
validate(request) ==
    ~ (request.finding_id = "" \/ request.execution_id = ""
       \/ request.finding_type = "")

\* ------------------------------------------------------------ store items
\* An item is a function from attribute names to values; a table is a
\* function from the keys of the items it holds to those items.
Merge(item, attrs) ==
    [a \in (DOMAIN item) \cup (DOMAIN attrs) |->
        IF a \in DOMAIN attrs THEN attrs[a] ELSE item[a]]

EmptyAttrs == [a \in {} |-> ""]

Attr(name, value) == [a \in {name} |-> value]

OptAttr(cond, name, value) == IF cond THEN Attr(name, value) ELSE EmptyAttrs

\* Key of a Finding item: {"findingType": ..., "findingId": ...}
FindingKey(finding_type, finding_id) ==
    [a \in {"findingType", "findingId"} |->
        IF a = "findingType" THEN finding_type ELSE finding_id]

\* f"{finding_id}#{execution_id}"
SortKey(finding_id, execution_id) == finding_id \o "#" \o execution_id

\* Key of a History item: {"findingType": ..., "findingId#executionId": ...}
HistoryKey(finding_type, finding_id, execution_id) ==
    [a \in {"findingType", FINDING_ID_EXECUTION_ID_KEY} |->
        IF a = "findingType" THEN finding_type
        ELSE SortKey(finding_id, execution_id)]

\* os.getenv("HISTORY_TTL_DAYS", "365")
HISTORY_TTL_DAYS == 365

\* ------------------------------------------------- datetime (the library)
\* A datetime is a record of its civil fields and its utcoffset in seconds
\* (NoOffset for a naive one).  A timestamp string in ISO-8601 form is a
\* record of its parts: the date digits, the time digits, the fraction (an
\* empty sequence when none is written) and the suffix after the time.
NoOffset == "naive"

\* year % 4 == 0 and (year % 100 != 0 or year % 400 == 0)
is_leap(year) ==
    year % 4 = 0 /\ (year % 100 # 0 \/ year % 400 = 0)

\* number of days before January 1st of year
days_before_year(year) ==
    LET y == year - 1
    IN  y * 365 + y \div 4 - y \div 100 + y \div 400

DAYS_IN_MONTH == <<31, 28, 31, 30, 31, 30, 31, 31, 30, 31, 30, 31>>

DAYS_BEFORE_MONTH == <<0, 31, 59, 90, 120, 151, 181, 212, 243, 273, 304, 334>>

\* number of days in year preceding the first day of month
days_before_month(year, month) ==
    DAYS_BEFORE_MONTH[month] + (IF month > 2 /\ is_leap(year) THEN 1 ELSE 0)

\* year, month, day -> ordinal, considering 01-Jan-0001 as day 1
ymd2ord(year, month, day) ==
    days_before_year(year) + days_before_month(year, month) + day

DI400Y == days_before_year(401)

DI100Y == days_before_year(101)

DI4Y == days_before_year(5)

\* ordinal -> <<year, month, day>>
ord2ymd(ordinal) ==
    LET n0 == ordinal - 1
        n400 == n0 \div DI400Y
        na == n0 % DI400Y
        n100 == na \div DI100Y
        nb == na % DI100Y
        n4 == nb \div DI4Y
        nc == nb % DI4Y
        n1 == nc \div 365
        n == nc % 365
        year == n400 * 400 + 1 + n100 * 100 + n4 * 4 + n1
        leapyear == n1 = 3 /\ (n4 # 24 \/ n100 = 3)
        leap(m) == IF m > 2 /\ leapyear THEN 1 ELSE 0
        month == (n + 50) \div 32
        preceding == DAYS_BEFORE_MONTH[month] + leap(month)
    IN  IF n1 = 4 \/ n100 = 4 THEN <<year - 1, 12, 31>>
        ELSE IF preceding > n
             THEN <<year, month - 1,
                    n - (preceding
                         - (DAYS_IN_MONTH[month - 1]
                            + (IF month - 1 = 2 /\ leapyear THEN 1 ELSE 0)))
                      + 1>>
             ELSE <<year, month, n - preceding + 1>>

\* datetime.utcnow(): the naive UTC time of the clock's tick-th reading;
\* the readings are one second apart.
utcnow(tick) ==
    [year |-> 2024, month |-> 12, day |-> 31, hour |-> 23, minute |-> 59,
     second |-> 50 + tick, microsecond |-> (250000 * tick) % 1000000,
     utcoffset |-> NoOffset]

\* datetime.isoformat() of a naive datetime: YYYY-MM-DDTHH:MM:SS, followed by
\* .ffffff only when the microsecond is not 0
isoformat(dt) ==
    [date |-> <<dt.year, dt.month, dt.day>>,
     time |-> <<dt.hour, dt.minute, dt.second>>,
     fraction |-> IF dt.microsecond = 0 THEN << >> ELSE <<dt.microsecond>>,
     suffix |-> ""]

\* s + "Z"
append_Z(s) == [s EXCEPT !.suffix = s.suffix \o "Z"]

\* s.replace("Z", "+00:00"): the only place a Z can stand is the suffix
replace_Z(s) ==
    [s EXCEPT !.suffix = IF s.suffix = "Z" THEN "+00:00" ELSE s.suffix]

\* datetime.fromisoformat(s): aware at offset 0 for the suffix +00:00, naive
\* when there is no suffix
fromisoformat(s) ==
    [year |-> s.date[1], month |-> s.date[2], day |-> s.date[3],
     hour |-> s.time[1], minute |-> s.time[2], second |-> s.time[3],
     microsecond |-> IF s.fraction = << >> THEN 0 ELSE s.fraction[1],
     utcoffset |-> IF s.suffix = "+00:00" THEN 0 ELSE NoOffset]

\* dt + timedelta(days=days): through the ordinal of the date and back.
\* (Here and in ttl_timestamp an intermediate value is bound as the element
\* of a singleton set, so that it is computed once.)
add_days(dt, days) ==
    CHOOSE sum \in
        { [dt EXCEPT !.year = ymd[1], !.month = ymd[2], !.day = ymd[3]] :
            ymd \in { ord2ymd(ordinal) :
                        ordinal \in {ymd2ord(dt.year, dt.month, dt.day)
                                     + days} } } : TRUE

\* dt.timestamp() of an aware datetime, (dt - 1970-01-01T00:00:00+00:00)
\* .total_seconds(): the whole seconds (floor) and the microseconds above
epoch_seconds(dt) ==
    [seconds |-> (ymd2ord(dt.year, dt.month, dt.day) - ymd2ord(1970, 1, 1))
                  * 86400
                 + dt.hour * 3600 + dt.minute * 60 + dt.second - dt.utcoffset,
     microsecond |-> dt.microsecond]

\* int(x): truncation towards zero
int(x) ==
    IF x.seconds < 0 /\ x.microsecond # 0 THEN x.seconds + 1 ELSE x.seconds

\* Mutant of ttl_timestamp: the same date and time ttl_days / 365 calendar
\* years later.
ttl_timestamp_CalendarYears(timestamp, ttl_days) ==
    LET dt == fromisoformat(replace_Z(timestamp))
    IN  int(epoch_seconds([dt EXCEPT !.year = dt.year + ttl_days \div 365]))

\* Mutant of ttl_timestamp: the fraction of the second is rounded, not cut.
ttl_timestamp_Rounded(timestamp, ttl_days) ==
    LET dt == fromisoformat(replace_Z(timestamp))
        x == epoch_seconds(add_days(dt, ttl_days))
    IN  IF x.microsecond >= 500000 THEN x.seconds + 1 ELSE x.seconds

\* calculate_ttl_timestamp after its reading of the retention: parse the
\* timestamp, add the days, return the epoch second
ttl_timestamp(timestamp, ttl_days) ==
    CHOOSE seconds \in
        { int(x) :
            x \in { epoch_seconds(ttl_dt) :
                      ttl_dt \in { add_days(dt, ttl_days) :
                                     dt \in {fromisoformat(
                                                 replace_Z(timestamp))} } } } :
        TRUE

\* calculate_ttl_timestamp with HISTORY_TTL_DAYS unset
calculate_ttl_timestamp(timestamp) ==
    ttl_timestamp(timestamp, HISTORY_TTL_DAYS)

\* findings_repository.build_update_item: an Update of the Finding item
\* with no ConditionExpression.
build_finding_update_item(finding_type, finding_id, remediation_status, execution_id, error) ==
    [op |-> "Update", table |-> "findings",
     key |-> FindingKey(finding_type, finding_id),
     attrs |-> Merge(Merge(Attr("remediationStatus", remediation_status),
                           OptAttr(execution_id # "", "executionId",
                                   execution_id)),
                     OptAttr(error # NoValue, "error", error)),
     cond |-> "none"]

\* Mutant of build_update_item: the History update also stamps the record
\* with who updated it last.
build_update_item_Stamped(finding_id, execution_id, remediation_status, finding_type, error) ==
    [op |-> "Update", table |-> "history",
     key |-> HistoryKey(finding_type, finding_id, execution_id),
     attrs |-> Merge(Merge(Attr("remediationStatus", remediation_status),
                           OptAttr(error # NoValue, "error", error)),
                     Attr("lastUpdatedBy", "Tier1")),
     cond |-> "attribute_exists"]

\* Mutant of build_update_item: the History update never sets the error.
build_update_item_NoError(finding_id, execution_id, remediation_status, finding_type, error) ==
    [op |-> "Update", table |-> "history",
     key |-> HistoryKey(finding_type, finding_id, execution_id),
     attrs |-> Attr("remediationStatus", remediation_status),
     cond |-> "attribute_exists"]

\* history_repository.build_update_item: an Update of the History item that
\* requires the item to exist.
build_update_item(finding_id, execution_id, remediation_status, finding_type, error) ==
    [op |-> "Update", table |-> "history",
     key |-> HistoryKey(finding_type, finding_id, execution_id),
     attrs |-> Merge(Attr("remediationStatus", remediation_status),
                     OptAttr(error # NoValue, "error", error)),
     cond |-> "attribute_exists"]

\* Mutant of CreateCondition: the History Put carries no condition.
CreateCondition_Unconditional == "none"

\* The ConditionExpression build_create_item puts on the History Put.
CreateCondition == "attribute_not_exists"

\* history_repository.build_create_item: a conditional Put of a new History
\* item; timestamp is the datetime.utcnow().isoformat() + "Z" the function
\* computes.
build_create_item(request, extra_fields, timestamp) ==
    LET base ==
          [a \in {"findingType", "findingId", FINDING_ID_EXECUTION_ID_KEY,
                  "executionId", "remediationStatus", "lastUpdatedTime",
                  "lastUpdatedTime#findingId", "REMEDIATION_CONSTANT",
                  "lastUpdatedBy", "expireAt"} |->
             CASE a = "findingType" -> request.finding_type
               [] a = "findingId" -> request.finding_id
               [] a = FINDING_ID_EXECUTION_ID_KEY ->
                      SortKey(request.finding_id, request.execution_id)
               [] a = "executionId" -> request.execution_id
               [] a = "remediationStatus" -> request.remediation_status
               [] a = "lastUpdatedTime" -> timestamp
               [] a = "lastUpdatedTime#findingId" ->
                      <<timestamp, request.finding_id>>
               [] a = "REMEDIATION_CONSTANT" -> "remediation"
               [] a = "lastUpdatedBy" ->
                      IF request.lastUpdatedBy # NoValue
                      THEN request.lastUpdatedBy ELSE "Automated"
               [] a = "expireAt" -> calculate_ttl_timestamp(timestamp)]
        a1 == Merge(base, OptAttr(request.account_id # NoValue,
                                  "accountId", request.account_id))
        a2 == Merge(a1, OptAttr(request.resource_id # NoValue,
                                "resourceId", request.resource_id))
        a3 == Merge(a2, OptAttr(request.resource_type # NoValue,
                                "resourceType", request.resource_type))
        a4 == Merge(a3, OptAttr(request.severity # NoValue,
                                "severity", request.severity))
        a5 == Merge(a4, OptAttr(request.region # NoValue,
                                "region", request.region))
        a6 == Merge(a5, OptAttr(request.error # NoValue,
                                "error", request.error))
        item == Merge(a6, extra_fields)
    IN [op |-> "Put", table |-> "history",
        key |-> HistoryKey(request.finding_type, request.finding_id,
                           request.execution_id),
        attrs |-> item,
        cond |-> CreateCondition]

\* Mutant of transact_update_finding_and_history: the History update is
\* left out of the Tier 1 transaction.
transact_update_finding_and_history_FindingOnly(finding_type, finding_id, execution_id, remediation_status, error) ==
    << build_finding_update_item(finding_type, finding_id,
                                 remediation_status, execution_id, error) >>

\* history_repository.transact_update_finding_and_history: the TransactItems
\* of the Tier 1 transaction.
transact_update_finding_and_history(finding_type, finding_id, execution_id, remediation_status, error) ==
    << build_finding_update_item(finding_type, finding_id,
                                 remediation_status, execution_id, error),
       build_update_item(finding_id, execution_id, remediation_status,
                         finding_type, error) >>

\* history_repository.transact_create_history_and_update_finding: the
\* TransactItems of the Tier 2 transaction.
transact_create_history_and_update_finding(request, extra_fields, include_finding_update, timestamp) ==
    (IF include_finding_update
     THEN << build_finding_update_item(request.finding_type,
                                       request.finding_id,
                                       request.remediation_status,
                                       request.execution_id, request.error) >>
     ELSE << >>)
    \o << build_create_item(request, extra_fields, timestamp) >>

\* findings_repository.extract_partial_finding_data
PartialFindingFields ==
    {"accountId", "resourceId", "resourceType", "resourceTypeNormalized",
     "severity", "region", "lastUpdatedBy"}

extract_partial_finding_data(item) ==
    [a \in (DOMAIN item) \cap PartialFindingFields |-> item[a]]

\* The fields create_history_with_finding_update leaves out of extra_fields.
NamedHistoryFields ==
    {"accountId", "resourceId", "resourceType", "severity", "region",
     "lastUpdatedBy"}

\* extra_fields of create_history_with_finding_update; finding_data is
\* [isNone, data], and both None and the empty dict are falsy.
ExtraFields(finding_data) ==
    IF finding_data.isNone \/ DOMAIN finding_data.data = {}
    THEN EmptyAttrs
    ELSE [a \in (DOMAIN finding_data.data) \ NamedHistoryFields |->
             finding_data.data[a]]

\* Mutant of IncludeFindingUpdate: the Finding update is included whenever
\* the read found a record, with or without metadata.
IncludeFindingUpdate_FoundRecord(finding_data) ==
    ~ finding_data.isNone

\* bool(finding_data), the include_finding_update argument of Tier 2
IncludeFindingUpdate(finding_data) ==
    ~ finding_data.isNone /\ DOMAIN finding_data.data # {}

\* ------------------------------------------------------------------ state
VARIABLES
    findings,      \* Finding table: key -> item
    history,       \* History table: key -> item
    clock,         \* how many times datetime.utcnow() has been read
    faults,        \* number of store calls that met a fault so far
    pc,            \* position of each invocation
    req,           \* the RemediationUpdateRequest of each invocation
    finding_data,  \* local finding_data of create_history_with_finding_update
    calls,         \* store calls each invocation has issued, with responses
    lastFindingWrite, \* per Finding key, the call that last wrote the item
    args,          \* arguments of a direct call of one of the layer's functions
    result,        \* what that call returned
    secrets_cache, \* secrets_cache._secrets_cache: secret -> <<value, expiry>>
    secret_store,  \* what Secrets Manager holds for each secret
    now            \* datetime.now(), in seconds

secretsVars == <<secrets_cache, secret_store, now>>

vars == <<findings, history, clock, faults, pc, req, finding_data, calls,
          lastFindingWrite, args, result, secrets_cache, secret_store, now>>

\* The secrets a function of this process may ask for.
SecretNames == {"s1"}

SecretValues == {"v1", "v2"}

\* What get_secret_value answers for a secret that holds no SecretString.
Binary == "SecretBinary"

\* At import the cache is empty (_secrets_cache = {}); the secret holds its
\* first value.
InitSecrets ==
    /\ secrets_cache = [n \in {} |-> <<"", 0>>]
    /\ secret_store = [n \in SecretNames |-> "v1"]
    /\ now = 0

\* ----------------------------------------------------- the backing store
\* What a call to the store may meet besides the state of the tables: an
\* error for the whole call (a botocore ClientError such as
\* ThrottlingException), or a transaction conflict on some of its items.
StoreBehaviours(n) ==
    IF faults < MaxFaults
    THEN [fault : {"none"}, conflict : SUBSET (1..n)]
         \cup [fault : {"ThrottlingException"}, conflict : {{}}]
    ELSE [fault : {"none"}, conflict : {{}}]

IsFault(b) == b.fault # "none" \/ b.conflict # {}

CountFault(b) == faults' = IF IsFault(b) THEN faults + 1 ELSE faults

Upsert(tbl, k, v) ==
    [x \in (DOMAIN tbl) \cup {k} |-> IF x = k THEN v ELSE tbl[x]]

\* DynamoDB evaluates a ConditionExpression against the item stored under
\* the key of the write.
ConditionHolds(it, tbl) ==
    CASE it.cond = "attribute_exists" -> it.key \in DOMAIN tbl
      [] it.cond = "attribute_not_exists" -> it.key \notin DOMAIN tbl
      [] OTHER -> TRUE

\* Put replaces the item; Update sets attributes of the stored item, or of
\* a new item holding only the key when none is stored.
ApplyWrite(it, tbl) ==
    IF it.op = "Put"
    THEN Upsert(tbl, it.key, it.attrs)
    ELSE Upsert(tbl, it.key,
                Merge(IF it.key \in DOMAIN tbl THEN tbl[it.key] ELSE it.key,
                      it.attrs))

RECURSIVE ApplyItems(_, _, _)
ApplyItems(items, tname, tbl) ==
    IF items = << >> THEN tbl
    ELSE ApplyItems(Tail(items), tname,
                    IF Head(items).table = tname
                    THEN ApplyWrite(Head(items), tbl) ELSE tbl)

TableOf(tname) == IF tname = "findings" THEN findings ELSE history

OkResponse == [kind |-> "ok", code |-> "", reasons |-> << >>]

FaultResponse(fault) ==
    [kind |-> "ClientError", code |-> fault, reasons |-> << >>]

\* CancellationReasons of a cancelled transaction, one per item
CancellationReasons(items, conflict) ==
    [i \in 1..Len(items) |->
        IF i \in conflict THEN "TransactionConflict"
        ELSE IF ~ ConditionHolds(items[i], TableOf(items[i].table))
             THEN "ConditionalCheckFailed"
             ELSE "None"]

\* dynamodb.transact_write_items: all items are applied, or none is and the
\* call raises.
transact_write_items(items, b) ==
    LET reasons == CancellationReasons(items, b.conflict)
    IN IF b.fault # "none" THEN FaultResponse(b.fault)
       ELSE IF \E i \in 1..Len(items) : reasons[i] # "None"
            THEN [kind |-> "ClientError",
                  code |-> "TransactionCanceledException",
                  reasons |-> reasons]
            ELSE OkResponse

\* dynamodb.update_item / get_item: one unconditional call
single_call(b) ==
    IF b.fault # "none" THEN FaultResponse(b.fault) ELSE OkResponse

\* What the log keeps of a response: "ok", the error code, or for a
\* cancelled transaction whether an item failed its condition.
ResponseClass(resp) ==
    IF resp.kind = "ok" THEN "ok"
    ELSE IF resp.code = "TransactionCanceledException"
         THEN IF \E i \in 1..Len(resp.reasons) :
                     resp.reasons[i] = "ConditionalCheckFailed"
              THEN "ConditionalCheckFailed"
              ELSE "TransactionConflict"
         ELSE resp.code

\* One entry of the call log: the call, its response, the utcnow() it read
\* (0 when it read none), the writes it asked for and whether the two
\* records of the request existed when it ran.
Call(op, request, items, resp, time) ==
    [op |-> op, result |-> ResponseClass(resp), time |-> time,
     writes |-> {<<items[i].op, items[i].table>> : i \in 1..Len(items)},
     findingExisted |->
        FindingKey(request.finding_type, request.finding_id)
            \in DOMAIN findings,
     historyExisted |->
        HistoryKey(request.finding_type, request.finding_id,
                   request.execution_id) \in DOMAIN history]

Log(p, entry) == calls' = [calls EXCEPT ![p] = Append(@, entry)]

\* The store applies the items of an accepted call.
Commit(op, items) ==
    /\ findings' = ApplyItems(items, "findings", findings)
    /\ history' = ApplyItems(items, "history", history)
    /\ lastFindingWrite' =
          [k \in (DOMAIN lastFindingWrite)
                  \cup {items[i].key : i \in {j \in 1..Len(items) :
                                                 items[j].table = "findings"}}
             |-> IF \E i \in 1..Len(items) :
                       items[i].table = "findings" /\ items[i].key = k
                 THEN op ELSE lastFindingWrite[k]]

\* The store rejects a call: no table changes.
Reject == UNCHANGED <<findings, history, lastFindingWrite,
                   secretsVars>>

\* --------------------------------------------------------------- protocol
NoFindingData == [isNone |-> TRUE, data |-> EmptyAttrs]

\* Finding items the ingestion path may have stored before the engine runs.
InitialFindingItems(k) ==
    { Merge(Merge(k, Attr("remediationStatus", "NOT_STARTED")),
            Merge(Attr("accountId", "fnd-acct"),
                  Attr("resourceTypeNormalized", "fnd-norm"))) }

InitialFindingTables ==
    LET k == FindingKey("T", "f1")
    IN { [x \in {} |-> EmptyAttrs] }
       \cup { [x \in {k} |-> item] : item \in InitialFindingItems(k) }

NoRequest == CHOOSE r \in Requests : ~ validate(r)

\* No function of the layer has been called directly.
NoArgs == [fn |-> "none"]

NoResult == [returned |-> FALSE]

Init ==
    /\ findings \in InitialFindingTables
    /\ history = [x \in {} |-> EmptyAttrs]
    /\ clock = 0
    /\ faults = 0
    /\ pc = [p \in Invocations |-> "idle"]
    /\ req = [p \in Invocations |-> NoRequest]
    /\ finding_data = [p \in Invocations |-> NoFindingData]
    /\ calls = [p \in Invocations |-> << >>]
    /\ lastFindingWrite = [k \in {} |-> ""]
    /\ args = NoArgs
    /\ result = NoResult
    /\ InitSecrets

\* try_update_with_existing_history's reading of the response: "True",
\* "False" (fall back to creation) or "raise".
Tier1Outcome(resp) ==
    IF resp.kind = "ok" THEN "True"
    ELSE IF /\ resp.kind = "ClientError"
            /\ resp.code = "TransactionCanceledException"
            /\ \E i \in 1..Len(resp.reasons) :
                   resp.reasons[i] = "ConditionalCheckFailed"
         THEN "False"
         ELSE "raise"

\* Mutant of try_update_with_existing_history: the result of an accepted
\* transaction is read as False, so the engine goes on to Tier 2.
try_update_with_existing_history_ThenCreate(p, request, b) ==
    LET items == transact_update_finding_and_history(
                     request.finding_type, request.finding_id,
                     request.execution_id, request.remediation_status,
                     request.error)
        resp == transact_write_items(items, b)
        outcome == Tier1Outcome(resp)
    IN /\ IF resp.kind = "ok" THEN Commit("transact_update", items)
          ELSE Reject
       /\ pc' = [pc EXCEPT ![p] =
                    CASE outcome = "True" -> "read"
                      [] outcome = "False" -> "read"
                      [] OTHER -> "raised"]
       /\ Log(p, Call("transact_update", request, items, resp, 0))
       /\ CountFault(b)

\* Tier 1: the transaction of try_update_with_existing_history for the
\* request of invocation p.
try_update_with_existing_history(p, request, b) ==
    LET items == transact_update_finding_and_history(
                     request.finding_type, request.finding_id,
                     request.execution_id, request.remediation_status,
                     request.error)
        resp == transact_write_items(items, b)
        outcome == Tier1Outcome(resp)
    IN /\ IF resp.kind = "ok" THEN Commit("transact_update", items)
          ELSE Reject
       /\ pc' = [pc EXCEPT ![p] =
                    CASE outcome = "True" -> "returned"
                      [] outcome = "False" -> "read"
                      [] OTHER -> "raised"]
       /\ Log(p, Call("transact_update", request, items, resp, 0))
       /\ CountFault(b)

\* update_remediation_status_and_history up to the end of its first store
\* call: an invalid request returns at once, a valid one runs Tier 1.
\* Invocations are numbered in the order in which they are called.
update_remediation_status_and_history(p, request, b) ==
    /\ pc[p] = "idle"
    /\ IF p = 1 THEN TRUE ELSE pc[p - 1] # "idle"
    /\ req' = [req EXCEPT ![p] = request]
    /\ IF validate(request)
       THEN try_update_with_existing_history(p, request, b)
       ELSE /\ ~ IsFault(b)
            /\ pc' = [pc EXCEPT ![p] = "returned"]
            /\ UNCHANGED <<findings, history, faults, calls,
                           lastFindingWrite,
                   secretsVars>>
    /\ UNCHANGED <<clock, finding_data, args, result,
                   secretsVars>>

\* findings_repository.get: the stored item, or None when there is none or
\* the lookup raised.
get(finding_type, finding_id, resp) ==
    LET k == FindingKey(finding_type, finding_id)
    IN IF resp.kind = "ok" /\ k \in DOMAIN findings
       THEN [isNone |-> FALSE, data |-> findings[k]]
       ELSE NoFindingData

\* Mutant of get_finding_data: a read that yields no item ends the
\* invocation with an error.
get_finding_data_FatalRead(p, b) ==
    LET r == req[p]
        resp == single_call(b)
        item == get(r.finding_type, r.finding_id, resp)
    IN /\ pc[p] = "read"
       /\ finding_data' = [finding_data EXCEPT ![p] =
             IF item.isNone THEN NoFindingData
             ELSE [isNone |-> FALSE,
                   data |-> extract_partial_finding_data(item.data)]]
       /\ pc' = [pc EXCEPT ![p] = IF item.isNone THEN "raised" ELSE "tier2"]
       /\ Log(p, Call("get_item", r, << >>, resp, 0))
       /\ CountFault(b)
       /\ UNCHANGED <<findings, history, clock, req, lastFindingWrite,
                      args, result,
                   secretsVars>>

\* Tier 2, first half: get_finding_data inside
\* create_history_with_finding_update.
get_finding_data(p, b) ==
    LET r == req[p]
        resp == single_call(b)
        item == get(r.finding_type, r.finding_id, resp)
    IN /\ pc[p] = "read"
       /\ finding_data' = [finding_data EXCEPT ![p] =
             IF item.isNone THEN NoFindingData
             ELSE [isNone |-> FALSE,
                   data |-> extract_partial_finding_data(item.data)]]
       /\ pc' = [pc EXCEPT ![p] = "tier2"]
       /\ Log(p, Call("get_item", r, << >>, resp, 0))
       /\ CountFault(b)
       /\ UNCHANGED <<findings, history, clock, req, lastFindingWrite,
                      args, result,
                   secretsVars>>

\* Mutant of Tier2Outcome: every rejected Tier 2 transaction is raised.
Tier2Outcome_RaiseRejected(resp) ==
    IF resp.kind = "ok" THEN "return" ELSE "raise"

\* create_history_with_finding_update's reading of the response: "return",
\* "update_finding_only" or "raise".
Tier2Outcome(resp) ==
    IF resp.kind = "ok" THEN "return"
    ELSE IF /\ resp.kind = "ClientError"
            /\ resp.code = "TransactionCanceledException"
         THEN "update_finding_only"
         ELSE "raise"

\* Mutant of create_history_with_finding_update: a cancelled Tier 2
\* transaction is attempted again after a new read.
create_history_with_finding_update_Retry(p, b) ==
    /\ pc[p] = "tier2"
    /\ \E timestamp \in {append_Z(isoformat(utcnow(clock + 1)))} :
       \E items \in {transact_create_history_and_update_finding(
                         req[p], ExtraFields(finding_data[p]),
                         IncludeFindingUpdate(finding_data[p]), timestamp)} :
       LET r == req[p]
           resp == transact_write_items(items, b)
           outcome == Tier2Outcome(resp)
       IN
       /\ clock' = clock + 1
       /\ IF resp.kind = "ok" THEN Commit("transact_create", items)
          ELSE Reject
       /\ pc' = [pc EXCEPT ![p] =
                    CASE outcome = "return" -> "returned"
                      [] outcome = "update_finding_only" ->
                             IF Len(calls[p]) < 4 THEN "read" ELSE "tier3"
                      [] OTHER -> "raised"]
       /\ finding_data' = [finding_data EXCEPT ![p] = NoFindingData]
       /\ Log(p, Call("transact_create", r, items, resp, timestamp))
       /\ CountFault(b)
       /\ UNCHANGED <<req, args, result,
                   secretsVars>>

\* Tier 2, second half: the transaction of
\* create_history_with_finding_update; build_create_item reads utcnow(),
\* which has advanced since the last read.  finding_data goes out of scope
\* when the function is left.
create_history_with_finding_update(p, b) ==
    /\ pc[p] = "tier2"
    /\ \E timestamp \in {append_Z(isoformat(utcnow(clock + 1)))} :
       \E items \in {transact_create_history_and_update_finding(
                         req[p], ExtraFields(finding_data[p]),
                         IncludeFindingUpdate(finding_data[p]), timestamp)} :
       LET r == req[p]
           resp == transact_write_items(items, b)
           outcome == Tier2Outcome(resp)
       IN
       /\ clock' = clock + 1
       /\ IF resp.kind = "ok" THEN Commit("transact_create", items)
          ELSE Reject
       /\ pc' = [pc EXCEPT ![p] =
                    CASE outcome = "return" -> "returned"
                      [] outcome = "update_finding_only" -> "tier3"
                      [] OTHER -> "raised"]
       /\ finding_data' = [finding_data EXCEPT ![p] = NoFindingData]
       /\ Log(p, Call("transact_create", r, items, resp, timestamp))
       /\ CountFault(b)
       /\ UNCHANGED <<req, args, result,
                   secretsVars>>

\* Mutant of update_finding_only: an error of the Tier 3 update is logged
\* and not raised.
update_finding_only_Swallowed(p, b) ==
    LET r == req[p]
        items == << build_finding_update_item(
                        r.finding_type, r.finding_id, r.remediation_status,
                        r.execution_id, r.error) >>
        resp == single_call(b)
    IN /\ pc[p] = "tier3"
       /\ IF resp.kind = "ok" THEN Commit("update_item", items)
          ELSE Reject
       /\ pc' = [pc EXCEPT ![p] = "returned"]
       /\ Log(p, Call("update_item", r, items, resp, 0))
       /\ CountFault(b)
       /\ UNCHANGED <<clock, req, finding_data, args, result,
                   secretsVars>>

\* Mutant of update_finding_only: Tier 3 also sets the status of the
\* History record.
update_finding_only_AlsoHistory(p, b) ==
    LET r == req[p]
        items == << build_finding_update_item(
                        r.finding_type, r.finding_id, r.remediation_status,
                        r.execution_id, r.error) >>
        both == transact_update_finding_and_history(
                        r.finding_type, r.finding_id, r.execution_id,
                        r.remediation_status, r.error)
        resp == single_call(b)
    IN /\ pc[p] = "tier3"
       /\ IF resp.kind = "ok" THEN Commit("update_item", both)
          ELSE Reject
       /\ pc' = [pc EXCEPT ![p] =
                    IF resp.kind = "ok" THEN "returned" ELSE "raised"]
       /\ Log(p, Call("update_item", r, items, resp, 0))
       /\ CountFault(b)
       /\ UNCHANGED <<clock, req, finding_data, args, result,
                   secretsVars>>

\* Tier 3: update_finding_only, an unconditional update_item on the
\* Finding item.
update_finding_only(p, b) ==
    LET r == req[p]
        items == << build_finding_update_item(
                        r.finding_type, r.finding_id, r.remediation_status,
                        r.execution_id, r.error) >>
        resp == single_call(b)
    IN /\ pc[p] = "tier3"
       /\ IF resp.kind = "ok" THEN Commit("update_item", items)
          ELSE Reject
       /\ pc' = [pc EXCEPT ![p] =
                    IF resp.kind = "ok" THEN "returned" ELSE "raised"]
       /\ Log(p, Call("update_item", r, items, resp, 0))
       /\ CountFault(b)
       /\ UNCHANGED <<clock, req, finding_data, args, result,
                   secretsVars>>

Next ==
    \/ \E p \in Invocations, request \in Requests,
          b \in StoreBehaviours(2) :
           update_remediation_status_and_history(p, request, b)
    \/ \E p \in Invocations, b \in StoreBehaviours(0) :
           get_finding_data(p, b)
    \/ \E p \in Invocations, b \in StoreBehaviours(2) :
           create_history_with_finding_update(p, b)
    \/ \E p \in Invocations, b \in StoreBehaviours(0) :
           update_finding_only(p, b)

Spec == Init /\ [][Next]_vars

\* Calls made one after the other: an invocation is called only when every
\* earlier one has returned or raised.
Quiescent == \A p \in Invocations : pc[p] \in {"idle", "returned", "raised"}

NextSeq ==
    \/ \E p \in Invocations, request \in Requests,
          b \in StoreBehaviours(2) :
           Quiescent /\ update_remediation_status_and_history(p, request, b)
    \/ \E p \in Invocations, b \in StoreBehaviours(0) :
           get_finding_data(p, b)
    \/ \E p \in Invocations, b \in StoreBehaviours(2) :
           create_history_with_finding_update(p, b)
    \/ \E p \in Invocations, b \in StoreBehaviours(0) :
           update_finding_only(p, b)

SpecSeq == Init /\ [][NextSeq]_vars

\* Calls made one after the other for one execution that first fails with
\* an error message and then succeeds.
RequestsRetry ==
    { r \in [finding_id : {"f1"}, execution_id : {"e1"},
              remediation_status : {"SUCCESS", "FAILED"},
              finding_type : {"T"},
              error : {NoValue, "err"}, account_id : AccountIds,
              resource_id : {NoValue}, resource_type : {NoValue},
              severity : {NoValue}, region : {NoValue},
              lastUpdatedBy : {"Automated"}] :
        r.error # NoValue <=> r.remediation_status = "FAILED" }

NextRetry ==
    \/ \E p \in Invocations, request \in RequestsRetry,
          b \in StoreBehaviours(2) :
           Quiescent /\ update_remediation_status_and_history(p, request, b)
    \/ \E p \in Invocations, b \in StoreBehaviours(0) :
           get_finding_data(p, b)
    \/ \E p \in Invocations, b \in StoreBehaviours(2) :
           create_history_with_finding_update(p, b)
    \/ \E p \in Invocations, b \in StoreBehaviours(0) :
           update_finding_only(p, b)

SpecRetry == Init /\ [][NextRetry]_vars

\* ------------------------------------------- one call, wider input sets
\* The requests _update_finding_remediation_status may hand to the engine:
\* each identifying field may be empty, an error message is present or not,
\* and the event may carry no account id.
RequestsOne ==
    [finding_id : {"", "f1"}, execution_id : {"", "e1"},
     remediation_status : {"SUCCESS", "FAILED"}, finding_type : {"", "T"},
     error : {NoValue, "err"}, account_id : {NoValue, "req-acct"},
     resource_id : {NoValue}, resource_type : {NoValue},
     severity : {NoValue}, region : {NoValue},
     lastUpdatedBy : {"Automated"}]

\* Finding items the ingestion path may have stored: the key and a status,
\* with or without the metadata attributes get_finding_data harvests.
InitialFindingItemsOne(k) ==
    { Merge(Merge(k, Attr("remediationStatus", "NOT_STARTED")),
            Merge(OptAttr(hasAcct, "accountId", "fnd-acct"),
                  OptAttr(hasNorm, "resourceTypeNormalized", "fnd-norm"))) :
        hasAcct \in BOOLEAN, hasNorm \in BOOLEAN }

InitialFindingTablesOne ==
    LET k == FindingKey("T", "f1")
    IN { [x \in {} |-> EmptyAttrs] }
       \cup { [x \in {k} |-> item] : item \in InitialFindingItemsOne(k) }

\* The History table before the call: empty, or holding the record an
\* earlier call for (T, f1, e1) created at time 0.
InitialHistoryTablesOne ==
    LET earlier == [finding_id |-> "f1", execution_id |-> "e1",
                    remediation_status |-> "IN_PROGRESS",
                    finding_type |-> "T", error |-> NoValue,
                    account_id |-> "req-acct", resource_id |-> NoValue,
                    resource_type |-> NoValue, severity |-> NoValue,
                    region |-> NoValue, lastUpdatedBy |-> "Automated"]
        put == build_create_item(earlier, EmptyAttrs,
                                 append_Z(isoformat(utcnow(0))))
    IN { [x \in {} |-> EmptyAttrs], [x \in {put.key} |-> put.attrs] }

InitOne ==
    /\ findings \in InitialFindingTablesOne
    /\ history \in InitialHistoryTablesOne
    /\ clock = 0
    /\ faults = 0
    /\ pc = [p \in Invocations |-> "idle"]
    /\ req = [p \in Invocations |-> NoRequest]
    /\ finding_data = [p \in Invocations |-> NoFindingData]
    /\ calls = [p \in Invocations |-> << >>]
    /\ lastFindingWrite = [k \in {} |-> ""]
    /\ args = NoArgs
    /\ result = NoResult
    /\ InitSecrets

NoneCalled == \A p \in Invocations : pc[p] = "idle"

\* One call of update_remediation_status_and_history, run to its end.
NextOne ==
    \/ \E p \in Invocations, request \in RequestsOne,
          b \in StoreBehaviours(2) :
           NoneCalled /\ update_remediation_status_and_history(p, request, b)
    \/ \E p \in Invocations, b \in StoreBehaviours(0) :
           get_finding_data(p, b)
    \/ \E p \in Invocations, b \in StoreBehaviours(2) :
           create_history_with_finding_update(p, b)
    \/ \E p \in Invocations, b \in StoreBehaviours(0) :
           update_finding_only(p, b)

SpecOne == InitOne /\ [][NextOne]_vars

\* ------------------------------------------------- map_remediation_status
\* A Python str is the sequence of its characters; an Optional[str] is
\* None or a str.
None == [isNone |-> TRUE, chars |-> << >>]

Str(chars) == [isNone |-> FALSE, chars |-> chars]

LowerCase ==
    <<"a", "b", "c", "d", "e", "f", "g", "h", "i", "j", "k", "l", "m",
      "n", "o", "p", "q", "r", "s", "t", "u", "v", "w", "x", "y", "z">>

UpperCase ==
    <<"A", "B", "C", "D", "E", "F", "G", "H", "I", "J", "K", "L", "M",
      "N", "O", "P", "Q", "R", "S", "T", "U", "V", "W", "X", "Y", "Z">>

upper_char(c) ==
    IF \E i \in DOMAIN LowerCase : LowerCase[i] = c
    THEN UpperCase[CHOOSE i \in DOMAIN LowerCase : LowerCase[i] = c]
    ELSE c

lower_char(c) ==
    IF \E i \in DOMAIN UpperCase : UpperCase[i] = c
    THEN LowerCase[CHOOSE i \in DOMAIN UpperCase : UpperCase[i] = c]
    ELSE c

\* str.upper()
upper(chars) == [i \in 1..Len(chars) |-> upper_char(chars[i])]

NOT_STARTED == <<"N", "O", "T", "_", "S", "T", "A", "R", "T", "E", "D">>

IN_PROGRESS == <<"I", "N", "_", "P", "R", "O", "G", "R", "E", "S", "S">>

SUCCESS == <<"S", "U", "C", "C", "E", "S", "S">>

FAILED == <<"F", "A", "I", "L", "E", "D">>

QUEUED == <<"Q", "U", "E", "U", "E", "D">>

RUNNING == <<"R", "U", "N", "N", "I", "N", "G">>

LAMBDA_ERROR == <<"L", "A", "M", "B", "D", "A", "_", "E", "R", "R", "O", "R">>

UNKNOWN_STATUS == <<"U", "N", "K", "N", "O", "W", "N", "_", "S", "T", "A", "T", "U", "S">>

\* The keys of layer.metrics.NORMALIZED_STATUS_REASON_MAPPING, the
\* configured failure-reason codes.
NORMALIZED_STATUS_REASON_MAPPING == {FAILED, LAMBDA_ERROR}

\* Mutant of map_remediation_status: an unknown status is passed through in
\* upper case.
map_remediation_status_PassThrough(status) ==
    IF status.isNone \/ status.chars = << >> THEN NOT_STARTED
    ELSE LET status_upper == upper(status.chars)
         IN IF status_upper \in {SUCCESS, NOT_STARTED} THEN status_upper
            ELSE IF status_upper \in {QUEUED, RUNNING, IN_PROGRESS}
                 THEN IN_PROGRESS
                 ELSE IF status_upper \in NORMALIZED_STATUS_REASON_MAPPING
                      THEN FAILED
                      ELSE status_upper

\* Mutant of map_remediation_status: the status is compared as it is
\* written, without upper().
map_remediation_status_CaseSensitive(status) ==
    IF status.isNone \/ status.chars = << >> THEN NOT_STARTED
    ELSE LET status_upper == status.chars
         IN IF status_upper \in {SUCCESS, NOT_STARTED} THEN status_upper
            ELSE IF status_upper \in {QUEUED, RUNNING, IN_PROGRESS}
                 THEN IN_PROGRESS
                 ELSE FAILED

\* remediation_data_service.map_remediation_status
map_remediation_status(status) ==
    IF status.isNone \/ status.chars = << >> THEN NOT_STARTED
    ELSE LET status_upper == upper(status.chars)
         IN IF status_upper \in {SUCCESS, NOT_STARTED} THEN status_upper
            ELSE IF status_upper \in {QUEUED, RUNNING, IN_PROGRESS}
                 THEN IN_PROGRESS
                 ELSE IF status_upper \in NORMALIZED_STATUS_REASON_MAPPING
                      THEN FAILED
                      ELSE FAILED

\* --------------------------------------- direct calls of layer functions
\* Every way of writing word w in upper and lower case letters.
CaseVariants(w) ==
    { [i \in 1..Len(w) |-> IF i \in S THEN lower_char(w[i]) ELSE w[i]] :
        S \in SUBSET (1..Len(w)) }

\* Status strings an event may carry: nothing, the empty string, the known
\* words in any letter case, and text that is no known word.
StatusInputs ==
    {None, Str(<< >>)}
    \cup { Str(c) : c \in UNION { CaseVariants(w) :
                w \in {SUCCESS, NOT_STARTED, QUEUED, RUNNING, IN_PROGRESS,
                       FAILED, LAMBDA_ERROR} } }
    \cup { Str(UNKNOWN_STATUS), Str(<<" ">>), Str(SUCCESS \o <<" ">>),
           Str(<<"_">> \o QUEUED), Str(<<"0">>) }

\* Finding attributes a caller of build_create_item may pass as
\* extra_fields: each attribute is passed or not.
ExtraFieldsInputs ==
    { Merge(Merge(OptAttr(hasNorm, "resourceTypeNormalized", "fnd-norm"),
                  OptAttr(hasAcct, "accountId", "fnd-acct")),
            OptAttr(hasStatus, "remediationStatus", "NOT_STARTED")) :
        hasNorm \in BOOLEAN, hasAcct \in BOOLEAN, hasStatus \in BOOLEAN }

\* Timestamps a caller of calculate_ttl_timestamp may pass: UTC, with the Z
\* suffix, with and without a fraction of a second.
TimestampInputs ==
    { append_Z([date |-> d, time |-> t, fraction |-> f, suffix |-> ""]) :
        d \in {<<1970, 1, 1>>, <<2000, 2, 29>>, <<2023, 1, 1>>,
               <<2024, 1, 1>>, <<2024, 2, 28>>, <<2024, 2, 29>>,
               <<2024, 3, 1>>, <<2024, 12, 31>>, <<2025, 6, 15>>},
        t \in {<<0, 0, 0>>, <<23, 59, 59>>},
        f \in {<< >>, <<999999>>} }

\* os.environ: HISTORY_TTL_DAYS is unset or holds a decimal numeral.
EnvironInputs ==
    {EmptyAttrs}
    \cup { Attr("HISTORY_TTL_DAYS", n) :
             n \in {<<"0">>, <<"1">>, <<"3", "6", "5">>, <<"3", "6", "6">>,
                    <<"7", "3", "0">>} }

\* int(s) of a decimal numeral
int_str(s) ==
    LET digit(c) == CASE c = "0" -> 0 [] c = "1" -> 1 [] c = "2" -> 2
                      [] c = "3" -> 3 [] c = "4" -> 4 [] c = "5" -> 5
                      [] c = "6" -> 6 [] c = "7" -> 7 [] c = "8" -> 8
                      [] c = "9" -> 9
        value[i \in 0..Len(s)] ==
            IF i = 0 THEN 0 ELSE value[i - 1] * 10 + digit(s[i])
    IN  value[Len(s)]

\* int(os.getenv("HISTORY_TTL_DAYS", "365"))
ttl_days(environ) ==
    IF "HISTORY_TTL_DAYS" \in DOMAIN environ
    THEN int_str(environ["HISTORY_TTL_DAYS"]) ELSE HISTORY_TTL_DAYS

\* Finding ids and execution ids a caller may pass: any str.
IdInputs == {"a", "b", "c", "a#b", "b#c", "#"}

\* The direct calls: the function and its arguments.
FunctionCalls ==
    [fn : {"map_remediation_status"}, status : StatusInputs]
    \cup [fn : {"calculate_ttl_timestamp"}, timestamp : TimestampInputs,
          environ : EnvironInputs]
    \cup [fn : {"HistoryKey"}, finding_type : {"T"},
          first : IdInputs \X IdInputs, second : IdInputs \X IdInputs]
    \cup [fn : {"build_create_item"},
          request : { r \in RequestsOne : validate(r) },
          extra_fields : ExtraFieldsInputs,
          timestamp : {append_Z(isoformat(utcnow(1)))}]

InitFunctions ==
    /\ findings = [x \in {} |-> EmptyAttrs]
    /\ history = [x \in {} |-> EmptyAttrs]
    /\ clock = 0
    /\ faults = 0
    /\ pc = [p \in Invocations |-> "idle"]
    /\ req = [p \in Invocations |-> NoRequest]
    /\ finding_data = [p \in Invocations |-> NoFindingData]
    /\ calls = [p \in Invocations |-> << >>]
    /\ lastFindingWrite = [k \in {} |-> ""]
    /\ args \in FunctionCalls
    /\ result = NoResult
    /\ InitSecrets

Returned(value) == [returned |-> TRUE, value |-> value]

call_map_remediation_status ==
    /\ args.fn = "map_remediation_status"
    /\ ~ result.returned
    /\ result' = Returned(map_remediation_status(args.status))
    /\ UNCHANGED <<findings, history, clock, faults, pc, req, finding_data,
                   calls, lastFindingWrite, args,
                   secretsVars>>

call_build_create_item ==
    /\ args.fn = "build_create_item"
    /\ ~ result.returned
    /\ result' = Returned(build_create_item(args.request, args.extra_fields,
                                            args.timestamp))
    /\ UNCHANGED <<findings, history, clock, faults, pc, req, finding_data,
                   calls, lastFindingWrite, args,
                   secretsVars>>

call_calculate_ttl_timestamp ==
    /\ args.fn = "calculate_ttl_timestamp"
    /\ ~ result.returned
    /\ result' = Returned(ttl_timestamp(args.timestamp,
                                        ttl_days(args.environ)))
    /\ UNCHANGED <<findings, history, clock, faults, pc, req, finding_data,
                   calls, lastFindingWrite, args,
                   secretsVars>>

\* The History keys build_create_item and build_update_item address for
\* two requests of one finding type.
call_HistoryKey ==
    /\ args.fn = "HistoryKey"
    /\ ~ result.returned
    /\ result' = Returned(<<HistoryKey(args.finding_type, args.first[1],
                                       args.first[2]),
                            HistoryKey(args.finding_type, args.second[1],
                                       args.second[2])>>)
    /\ UNCHANGED <<findings, history, clock, faults, pc, req, finding_data,
                   calls, lastFindingWrite, args, secretsVars>>

NextFunctions ==
    \/ call_map_remediation_status
    \/ call_HistoryKey
    \/ call_calculate_ttl_timestamp
    \/ call_build_create_item

SpecFunctions == InitFunctions /\ [][NextFunctions]_vars

\* ------------------------------------------------------------ secrets cache
\* secrets_cache.py: get_secret_value_cached and clear_cache, with the time
\* passing and the secret changing in Secrets Manager between the calls.
MaxNow == 3700

TimeStep == 100

\* _cache_ttl = int(os.getenv("SECRETS_CACHE_TTL_SECONDS", "300")), read at
\* import with the variable unset
cache_ttl == int_str(<<"3", "0", "0">>)

InitSecretsCache ==
    /\ findings = [x \in {} |-> EmptyAttrs]
    /\ history = [x \in {} |-> EmptyAttrs]
    /\ clock = 0
    /\ faults = 0
    /\ pc = [p \in Invocations |-> "idle"]
    /\ req = [p \in Invocations |-> NoRequest]
    /\ finding_data = [p \in Invocations |-> NoFindingData]
    /\ calls = [p \in Invocations |-> << >>]
    /\ lastFindingWrite = [k \in {} |-> ""]
    /\ args = NoArgs
    /\ result = NoResult
    /\ InitSecrets

\* get_secret_value_cached(secret_name, client); ok is whether the client's
\* get_secret_value answers (it is only asked when the cache does not serve).
get_secret_value_cached(secret_name, ok) ==
    LET cached == /\ secret_name \in DOMAIN secrets_cache
                  /\ now < secrets_cache[secret_name][2]
        held == secret_store[secret_name]
        expiry == now + cache_ttl
    IN  /\ args' = [fn |-> "get_secret_value_cached",
                     secret_name |-> secret_name]
        /\ IF cached
           THEN /\ ok
                /\ result' = [returned |-> TRUE, fetched |-> FALSE, at |-> now,
                              value |-> secrets_cache[secret_name][1]]
                /\ UNCHANGED secrets_cache
           ELSE IF ~ ok
           THEN /\ result' = [returned |-> FALSE, fetched |-> TRUE, at |-> now,
                              raised |-> "ClientError"]
                /\ UNCHANGED secrets_cache
           ELSE IF held = Binary
           THEN /\ result' = [returned |-> FALSE, fetched |-> TRUE, at |-> now,
                              raised |-> "RuntimeError"]
                /\ UNCHANGED secrets_cache
           ELSE /\ result' = [returned |-> TRUE, fetched |-> TRUE, at |-> now,
                              value |-> held]
                /\ secrets_cache' =
                      [n \in DOMAIN secrets_cache \cup {secret_name} |->
                          IF n = secret_name THEN <<held, expiry>>
                          ELSE secrets_cache[n]]
        /\ UNCHANGED <<findings, history, clock, faults, pc, req,
                       finding_data, calls, lastFindingWrite, secret_store,
                       now>>

\* clear_cache(): _secrets_cache.clear()
clear_cache ==
    /\ args' = [fn |-> "clear_cache"]
    /\ result' = [returned |-> TRUE, fetched |-> FALSE, at |-> now]
    /\ secrets_cache' = [n \in {} |-> <<"", 0>>]
    /\ UNCHANGED <<findings, history, clock, faults, pc, req, finding_data,
                   calls, lastFindingWrite, secret_store, now>>

\* The secret is given another value in Secrets Manager.
put_secret_value(secret_name, value) ==
    /\ secret_store[secret_name] # value
    /\ secret_store' = [secret_store EXCEPT ![secret_name] = value]
    /\ UNCHANGED <<findings, history, clock, faults, pc, req, finding_data,
                   calls, lastFindingWrite, args, result, secrets_cache, now>>

\* Time passes.
tick ==
    /\ now + TimeStep <= MaxNow
    /\ now' = now + TimeStep
    /\ UNCHANGED <<findings, history, clock, faults, pc, req, finding_data,
                   calls, lastFindingWrite, args, result, secrets_cache,
                   secret_store>>

NextSecretsCache ==
    \/ \E n \in SecretNames, ok \in BOOLEAN : get_secret_value_cached(n, ok)
    \/ clear_cache
    \/ \E n \in SecretNames, v \in SecretValues \cup {Binary} :
          put_secret_value(n, v)
    \/ tick

SpecSecretsCache == InitSecretsCache /\ [][NextSecretsCache]_vars

\* ----------------------------------------------- the notification handler
\* send_notifications.lambda_handler.  An event is a record of the entries
\* the handler reads: whether it carries a Finding, whether the Finding's
\* Workflow is a dict and the Status in it ("" when there is none), the
\* EventType ("" when there is none) and Notification.State.
CUSTOM_ACTION == "Security Hub Findings - Custom Action"

API_ACTION == "Security Hub Findings - API Action"

NOT_NEW == <<"N", "O", "T", "_", "N", "E", "W">>

Events ==
    [hasFinding : BOOLEAN, workflowIsDict : BOOLEAN,
     workflowStatus : {"", "NEW", "NOTIFIED", "RESOLVED"},
     EventType : {"", CUSTOM_ACTION, API_ACTION,
                  "Security Hub Findings - Imported"},
     State : {SUCCESS, <<"s", "u", "c", "c", "e", "s", "s">>, FAILED,
              NOT_NEW}]

\* Mutant of is_notified_workflow: the EventType is not looked at.
is_notified_workflow_AnyEventType(event) ==
    /\ event.hasFinding
    /\ event.workflowIsDict
    /\ event.workflowStatus = "NOTIFIED"

\* event_transformers.is_notified_workflow
is_notified_workflow(event) ==
    IF ~ event.hasFinding THEN FALSE
    ELSE IF ~ event.workflowIsDict THEN FALSE
    ELSE IF event.workflowStatus # "NOTIFIED" THEN FALSE
    ELSE IF event.EventType \in {CUSTOM_ACTION, API_ACTION} THEN FALSE
    ELSE TRUE

\* event_transformers.is_resolved_item
is_resolved_item(event) ==
    IF ~ event.hasFinding THEN FALSE
    ELSE IF event.State # NOT_NEW THEN FALSE
    ELSE IF ~ event.workflowIsDict THEN FALSE
    ELSE IF event.workflowStatus # "RESOLVED" THEN FALSE
    ELSE TRUE

\* event.get("Notification", {}).get("State", "").upper()
status_from_event(event) == upper(event.State)

\* The str a status word is, as the engine's requests carry it.
text(chars) ==
    CASE chars = SUCCESS -> "SUCCESS"
      [] chars = FAILED -> "FAILED"
      [] chars = IN_PROGRESS -> "IN_PROGRESS"
      [] chars = NOT_STARTED -> "NOT_STARTED"

\* The RemediationUpdateRequest _update_finding_remediation_status builds
\* for an event that carries a Finding.
remediation_request(event) ==
    LET mapped == map_remediation_status(Str(status_from_event(event)))
        resolved == is_resolved_item(event)
    IN  [finding_id |-> "f1", execution_id |-> "e1",
         remediation_status |-> IF resolved THEN "SUCCESS" ELSE text(mapped),
         finding_type |-> "T",
         error |-> IF mapped = FAILED /\ ~ resolved THEN "err" ELSE NoValue,
         account_id |-> "req-acct",
         resource_id |-> NoValue, resource_type |-> NoValue,
         severity |-> NoValue, region |-> NoValue,
         lastUpdatedBy |-> "Automated"]

\* Where the handler stands: stage is "update" while it is inside
\* _update_finding_remediation_status, "resolve" before its last statement,
\* "returned" or "raised" at its end.
HandlerAt(stage, notified_workflow, caught, resolve_called) ==
    [returned |-> stage = "returned", stage |-> stage,
     notified_workflow |-> notified_workflow, caught |-> caught,
     resolve_called |-> resolve_called]

InitHandler ==
    /\ findings \in InitialFindingTablesOne
    /\ history \in InitialHistoryTablesOne
    /\ clock = 0
    /\ faults = 0
    /\ pc = [p \in Invocations |-> "idle"]
    /\ req = [p \in Invocations |-> NoRequest]
    /\ finding_data = [p \in Invocations |-> NoFindingData]
    /\ calls = [p \in Invocations |-> << >>]
    /\ lastFindingWrite = [k \in {} |-> ""]
    /\ args \in [fn : {"lambda_handler"}, event : Events]
    /\ result = NoResult
    /\ InitSecrets

\* lambda_handler up to its decision whether to update the Finding's
\* status; ok is whether building and sending the notification succeeded.
lambda_handler(ok) ==
    LET event == args.event
        notified_workflow == is_notified_workflow(event)
    IN  /\ args.fn = "lambda_handler"
        /\ result = NoResult
        /\ result' =
              IF ~ ok THEN HandlerAt("raised", FALSE, FALSE, FALSE)
              ELSE IF event.hasFinding /\ ~ notified_workflow
              THEN HandlerAt("update", notified_workflow, FALSE, FALSE)
              ELSE HandlerAt("resolve", notified_workflow, FALSE, FALSE)
        /\ UNCHANGED <<findings, history, clock, faults, pc, req,
                       finding_data, calls, lastFindingWrite, args,
                       secretsVars>>

\* _update_finding_remediation_status up to the end of the engine's first
\* store call.
update_finding_remediation_status(b) ==
    /\ args.fn = "lambda_handler"
    /\ result # NoResult
    /\ result.stage = "update"
    /\ update_remediation_status_and_history(
           1, remediation_request(args.event), b)

\* Mutant of update_finding_remediation_status_end: an exception of the
\* engine leaves the handler.
update_finding_remediation_status_end_Reraise ==
    /\ args.fn = "lambda_handler"
    /\ result # NoResult
    /\ result.stage = "update"
    /\ pc[1] \in {"returned", "raised"}
    /\ result' = IF pc[1] = "raised"
                 THEN HandlerAt("raised", result.notified_workflow, FALSE,
                                FALSE)
                 ELSE HandlerAt("resolve", result.notified_workflow, FALSE,
                                FALSE)
    /\ UNCHANGED <<findings, history, clock, faults, pc, req,
                   finding_data, calls, lastFindingWrite, args, secretsVars>>

\* The end of _update_finding_remediation_status: the engine returned, or
\* raised and the except clause logged the exception.
update_finding_remediation_status_end ==
    /\ args.fn = "lambda_handler"
    /\ result # NoResult
    /\ result.stage = "update"
    /\ pc[1] \in {"returned", "raised"}
    /\ result' = HandlerAt("resolve", result.notified_workflow,
                           pc[1] = "raised", FALSE)
    /\ UNCHANGED <<findings, history, clock, faults, pc, req,
                   finding_data, calls, lastFindingWrite, args, secretsVars>>

\* The last statement of lambda_handler: finding.resolve when the event's
\* state is SUCCESS and it carries a Finding; ok is whether resolve
\* succeeded.
lambda_handler_end(ok) ==
    LET resolve == /\ status_from_event(args.event) = SUCCESS
                   /\ args.event.hasFinding
    IN  /\ args.fn = "lambda_handler"
        /\ result # NoResult
        /\ result.stage = "resolve"
        /\ ~ resolve => ok
        /\ result' = HandlerAt(IF ok THEN "returned" ELSE "raised",
                               result.notified_workflow, result.caught,
                               resolve)
        /\ UNCHANGED <<findings, history, clock, faults, pc, req,
                       finding_data, calls, lastFindingWrite, args,
                       secretsVars>>

NextHandler ==
    \/ \E ok \in BOOLEAN : lambda_handler(ok)
    \/ \E b \in StoreBehaviours(2) : update_finding_remediation_status(b)
    \/ \E b \in StoreBehaviours(0) : get_finding_data(1, b)
    \/ \E b \in StoreBehaviours(2) : create_history_with_finding_update(1, b)
    \/ \E b \in StoreBehaviours(0) : update_finding_only(1, b)
    \/ update_finding_remediation_status_end
    \/ \E ok \in BOOLEAN : lambda_handler_end(ok)

SpecHandler == InitHandler /\ [][NextHandler]_vars

\* ------------------------------------------------------ running to the end
\* The next step of invocation p once it has been called: the code is
\* straight-line, and every store call returns or raises.
Continue(p) ==
    \/ \E b \in StoreBehaviours(0) : get_finding_data(p, b)
    \/ \E b \in StoreBehaviours(2) : create_history_with_finding_update(p, b)
    \/ \E b \in StoreBehaviours(0) : update_finding_only(p, b)

\* Concurrent invocations, each of which keeps running once called.
SpecLive == Spec /\ \A p \in Invocations : WF_vars(Continue(p))

\* ------------------------------------------------------ a reliable store
\* The store meets no fault: a call is only ever rejected because a
\* ConditionExpression of one of its items does not hold.
NoFault == [fault |-> "none", conflict |-> {}]

ContinueReliable(p) ==
    \/ get_finding_data(p, NoFault)
    \/ create_history_with_finding_update(p, NoFault)
    \/ update_finding_only(p, NoFault)

NextReliable ==
    \/ \E p \in Invocations, request \in Requests :
           update_remediation_status_and_history(p, request, NoFault)
    \/ \E p \in Invocations : get_finding_data(p, NoFault)
    \/ \E p \in Invocations : create_history_with_finding_update(p, NoFault)
    \/ \E p \in Invocations : update_finding_only(p, NoFault)

\* Concurrent invocations against a reliable store, each of which keeps
\* running once called, from tables with or without the records of the
\* triple.
SpecReliable ==
    /\ InitOne
    /\ [][NextReliable]_vars
    /\ \A p \in Invocations : WF_vars(ContinueReliable(p))

\* ================================================================ claims
ReqFindingKey(p) == FindingKey(req[p].finding_type, req[p].finding_id)

ReqHistoryKey(p) ==
    HistoryKey(req[p].finding_type, req[p].finding_id, req[p].execution_id)

Committed(c) == c.result = "ok"

WritesFinding(c) == <<"Update", "findings">> \in c.writes

PutsHistory(c) == <<"Put", "history">> \in c.writes

\* Invocation p was called with a valid request and has returned normally.
ReturnedOk(p) == pc[p] = "returned" /\ validate(req[p])

\* (p, i) such that the i-th store call of invocation p committed a Put of
\* a History item.
HistoryCreations ==
    { pi \in Invocations \X (1..4) :
        /\ pi[2] <= Len(calls[pi[1]])
        /\ Committed(calls[pi[1]][pi[2]])
        /\ PutsHistory(calls[pi[1]][pi[2]]) }

\* C1: for one (findingType, findingId, executionId) at most one
\* invocation's History Put commits, whatever the interleaving; the record
\* it created stays in the table and later writes to the triple leave its
\* creation time as the creator wrote it (they update that one record).
C1_AtMostOneHistoryCreation ==
    \A x \in HistoryCreations :
        /\ ReqHistoryKey(x[1]) \in DOMAIN history
        /\ history[ReqHistoryKey(x[1])]["lastUpdatedTime"]
               = calls[x[1]][x[2]].time
        /\ \A y \in HistoryCreations :
               ReqHistoryKey(y[1]) = ReqHistoryKey(x[1]) => y = x

\* C1 witness: two invocations raced on one triple; one created the History
\* record and the other's conditional Put was rejected.
C1_Witness ==
    \E p, q \in Invocations :
        /\ p # q
        /\ ReqHistoryKey(p) = ReqHistoryKey(q)
        /\ \E x \in HistoryCreations : x[1] = p
        /\ \E j \in 1..Len(calls[q]) :
               /\ calls[q][j].op = "transact_create"
               /\ calls[q][j].result = "ConditionalCheckFailed"

NoneRunningNoneRaised ==
    /\ \A p \in Invocations : pc[p] \in {"idle", "returned"}
    /\ \E p \in Invocations : ReturnedOk(p)

\* The Finding item under key k agrees with the History record of the
\* execution the item names.
FindingAgreesWithHistory(k) ==
    "executionId" \in DOMAIN findings[k] =>
        LET hk == HistoryKey(k["findingType"], k["findingId"],
                             findings[k]["executionId"])
        IN /\ hk \in DOMAIN history
           /\ history[hk]["remediationStatus"]
                  = findings[k]["remediationStatus"]

\* C2 (as stated): once every invocation has terminated without raising,
\* the Finding's remediationStatus equals that of the History record of the
\* execution named by the Finding's executionId.  Stated for the runs in
\* which no store call met a fault, so that only the interleaving of the
\* writers is at play.
C2_FindingMatchesHistory ==
    (NoneRunningNoneRaised /\ faults = 0) =>
        \A k \in DOMAIN findings : FindingAgreesWithHistory(k)

\* C2 (amended): once every invocation has terminated without raising, the
\* Finding's remediationStatus equals that of the History record of the
\* execution named by the Finding's executionId, provided the Finding item
\* was last written by a Tier 1 or Tier 2 transaction (not by the Tier 3
\* finding-only update, which leaves History as the winner wrote it).
C2_FindingMatchesHistoryAfterTransaction ==
    NoneRunningNoneRaised =>
        \A k \in DOMAIN findings :
            (k \in DOMAIN lastFindingWrite
             /\ lastFindingWrite[k] \in {"transact_update", "transact_create"})
            => FindingAgreesWithHistory(k)

\* C2 witness: two invocations for one triple with different statuses have
\* both returned, and the Finding item was last written by a transaction.
C2_Witness ==
    /\ NoneRunningNoneRaised
    /\ \E p, q \in Invocations :
          /\ ReturnedOk(p) /\ ReturnedOk(q)
          /\ ReqHistoryKey(p) = ReqHistoryKey(q)
          /\ req[p].remediation_status # req[q].remediation_status
          /\ ReqFindingKey(p) \in DOMAIN lastFindingWrite
          /\ lastFindingWrite[ReqFindingKey(p)] = "transact_update"

\* C3: two calls, one after the other, with the same triple, both returning
\* normally: afterwards the History record of the triple exists and both it
\* and the Finding record read the second call's status.
C3_SecondCallOverwrites ==
    \A p \in Invocations :
        (/\ p + 1 \in Invocations
         /\ ReturnedOk(p) /\ ReturnedOk(p + 1)
         /\ ReqHistoryKey(p) = ReqHistoryKey(p + 1)
         /\ \A q \in Invocations : q > p + 1 => pc[q] = "idle")
        => /\ ReqHistoryKey(p) \in DOMAIN history
           /\ history[ReqHistoryKey(p)]["remediationStatus"]
                  = req[p + 1].remediation_status
           /\ ReqFindingKey(p) \in DOMAIN findings
           /\ findings[ReqFindingKey(p)]["remediationStatus"]
                  = req[p + 1].remediation_status

\* C4: with no History record for the triple, a call has Tier 1 rejected and
\* a committed Tier 2 transaction both creates the History record and
\* updates the Finding record; with a History record, the call makes the
\* Tier 1 call and no other.
C4_FirstCallCreatesBoth ==
    \A p \in Invocations :
        Len(calls[p]) >= 1 =>
            /\ ~ calls[p][1].historyExisted => ~ Committed(calls[p][1])
            /\ (/\ ~ calls[p][1].historyExisted
                /\ Len(calls[p]) >= 3
                /\ Committed(calls[p][3]))
               => calls[p][3].writes
                      = {<<"Update", "findings">>, <<"Put", "history">>}
            /\ calls[p][1].historyExisted => Len(calls[p]) = 1

\* C5: an invocation that returns without raising for a valid request has
\* committed a write of the Finding record.
C5_ReturnImpliesFindingWritten ==
    \A p \in Invocations :
        ReturnedOk(p) =>
            \E i \in 1..Len(calls[p]) :
                Committed(calls[p][i]) /\ WritesFinding(calls[p][i])

\* C6: the engine never creates a Finding record: every committed write of
\* a Finding item, in any tier, found the item in the table, and a Tier 1
\* call that finds no Finding item is rejected.
C6_NeverCreatesFinding ==
    \A p \in Invocations : \A i \in 1..Len(calls[p]) :
        (Committed(calls[p][i]) /\ WritesFinding(calls[p][i]))
        => calls[p][i].findingExisted

\* C7: every History record the engine created was created when the Finding
\* record of the same (findingType, findingId) existed.
C7_HistoryCreatedOnlyForExistingFinding ==
    \A x \in HistoryCreations : calls[x[1]][x[2]].findingExisted

\* C8: an invocation goes on after a rejected Tier 1 only when the rejection
\* is a conditional-check failure on the History item; any other rejection,
\* a missing Finding record included, ends the invocation raised with no
\* further store call.
C8_Tier1FallbackOnlyOnHistoryMissing ==
    \A p \in Invocations :
        Len(calls[p]) >= 1 =>
            LET c == calls[p][1]
                historyOnly == /\ c.result = "ConditionalCheckFailed"
                               /\ ~ c.historyExisted
                               /\ c.findingExisted
            IN /\ Len(calls[p]) >= 2 => historyOnly
               /\ (~ Committed(c) /\ ~ historyOnly)
                  => (pc[p] = "raised" /\ Len(calls[p]) = 1)

\* C9: a store error at Tier 1, Tier 2 or Tier 3 that is not a
\* conditional-check failure (a throttling error, a transaction cancelled
\* for another reason) makes the invocation raise, and that call is the
\* invocation's last store call.
C9_StoreFaultsPropagate ==
    \A p \in Invocations : \A i \in 1..Len(calls[p]) :
        (/\ calls[p][i].op # "get_item"
         /\ calls[p][i].result \in {"TransactionConflict",
                                    "ThrottlingException"})
        => (pc[p] = "raised" /\ i = Len(calls[p]))

\* Invocation p's Tier 2 conditional create failed because the History
\* record already existed.
LostCreationRace(p) ==
    /\ Len(calls[p]) >= 3
    /\ calls[p][3].op = "transact_create"
    /\ calls[p][3].result = "ConditionalCheckFailed"
    /\ calls[p][3].historyExisted

\* C10: an invocation whose Tier 2 create lost to a concurrent creator goes
\* to Tier 3; its Tier 3 step is one update_item that writes only the
\* Finding item, leaves the History table exactly as it was, and when it
\* commits the Finding record reads the invocation's status and execution.
C10_LoserUpdatesFindingOnly ==
    [][ \A p \in Invocations :
          (LostCreationRace(p) /\ Len(calls[p]) = 3)
          => /\ pc[p] = "tier3"
             /\ pc'[p] # pc[p]
                => /\ history' = history
                   /\ Len(calls'[p]) = 4
                   /\ calls'[p][4].op = "update_item"
                   /\ calls'[p][4].writes = {<<"Update", "findings">>}
                   /\ pc'[p] = "returned"
                      => /\ findings'[ReqFindingKey(p)]["remediationStatus"]
                               = req[p].remediation_status
                         /\ findings'[ReqFindingKey(p)]["executionId"]
                               = req[p].execution_id ]_vars

\* C10 witness: the loser has returned through Tier 3; the Finding record
\* reads its status while the History record reads the winner's.
C10_Witness ==
    \E p \in Invocations :
        /\ LostCreationRace(p)
        /\ ReturnedOk(p)
        /\ Len(calls[p]) = 4
        /\ findings[ReqFindingKey(p)]["remediationStatus"]
               = req[p].remediation_status
        /\ history[ReqHistoryKey(p)]["remediationStatus"]
               # req[p].remediation_status

\* Some identifying field of the request is empty.
AnyIdentifierEmpty(r) ==
    r.finding_id = "" \/ r.execution_id = "" \/ r.finding_type = ""

\* C11: validate returns false exactly when finding_id, execution_id or
\* finding_type is empty, and a call with such a request returns at once:
\* it issues no store call, raises nothing and changes neither table.
C11_InvalidRequestIsNoOp ==
    [][ \A p \in Invocations :
          (pc[p] = "idle" /\ pc'[p] # "idle")
          => /\ validate(req'[p]) = ~ AnyIdentifierEmpty(req'[p])
             /\ AnyIdentifierEmpty(req'[p])
                => /\ pc'[p] = "returned"
                   /\ calls'[p] = << >>
                   /\ findings' = findings
                   /\ history' = history
                   /\ faults' = faults ]_vars

\* C11 witness: a call whose request has a finding id but no execution id
\* has returned without a store call.
C11_Witness ==
    \E p \in Invocations :
        /\ pc[p] = "returned"
        /\ req[p].finding_id # "" /\ req[p].execution_id = ""
        /\ calls[p] = << >>

\* The enrichment read of invocation p raised or found no Finding item.
ReadCameBackEmpty(p) ==
    /\ Len(calls[p]) >= 2
    /\ calls[p][2].op = "get_item"
    /\ (calls[p][2].result # "ok" \/ ~ calls[p][2].findingExisted)

\* C12: a Tier 2 read that fails or finds nothing does not end the
\* invocation: it goes on to the Tier 2 transaction, which holds a History
\* Put whose item is built from the request alone; if the invocation raises,
\* it is because of a later store call.
C12_FailedReadIsNotFatal ==
    \A p \in Invocations :
        ReadCameBackEmpty(p)
        => /\ Len(calls[p]) = 2 => pc[p] = "tier2"
           /\ Len(calls[p]) >= 3
              => /\ calls[p][3].op = "transact_create"
                 /\ PutsHistory(calls[p][3])
                 /\ Committed(calls[p][3])
                    => history[ReqHistoryKey(p)]
                         = build_create_item(req[p], EmptyAttrs,
                                             calls[p][3].time).attrs
           /\ pc[p] = "raised" => ~ Committed(calls[p][Len(calls[p])])
           /\ pc[p] = "raised" => Len(calls[p]) >= 3

\* C12 witness: the read raised, and the Tier 2 transaction then created
\* the History record.
C12_Witness ==
    \E p \in Invocations :
        /\ ReadCameBackEmpty(p)
        /\ calls[p][2].result = "ThrottlingException"
        /\ Len(calls[p]) = 3
        /\ Committed(calls[p][3])
        /\ ReqHistoryKey(p) \in DOMAIN history

\* C13: an error of the Tier 3 update makes the invocation raise, and the
\* failed update is its last store call.
C13_Tier3ErrorPropagates ==
    \A p \in Invocations : \A i \in 1..Len(calls[p]) :
        (calls[p][i].op = "update_item" /\ ~ Committed(calls[p][i]))
        => (pc[p] = "raised" /\ i = Len(calls[p]))

\* C13 witness: a Tier 3 update met a store error and the invocation
\* raised.
C13_Witness ==
    \E p \in Invocations :
        /\ Len(calls[p]) = 4
        /\ calls[p][4].op = "update_item"
        /\ calls[p][4].result = "ThrottlingException"
        /\ pc[p] = "raised"

\* The store calls of one invocation, in the order of the code.
TierOrder == <<"transact_update", "get_item", "transact_create", "update_item">>

\* Invocation p has returned or raised.
Terminated(p) == pc[p] \in {"returned", "raised"}

\* C14: an invocation issues at most the four store calls Tier 1
\* transaction, Finding read, Tier 2 transaction, Tier 3 update, each at
\* most once and in that order, and from some point on every invocation
\* that was called has terminated (returned or raised) for good.
C14_TerminatesWithinFourCalls ==
    /\ [](\A p \in Invocations :
            /\ Len(calls[p]) <= Len(TierOrder)
            /\ \A i \in 1..Len(calls[p]) : calls[p][i].op = TierOrder[i])
    /\ <>[](\A p \in Invocations : pc[p] = "idle" \/ Terminated(p))

\* C14 witness: an invocation has terminated after all four store calls.
C14_Witness ==
    \E p \in Invocations :
        /\ Terminated(p)
        /\ Len(calls[p]) = 4
        /\ calls[p][4].op = "update_item"

\* The store calls of invocation p that committed a write.
MutatingCommits(p) ==
    { i \in 1..Len(calls[p]) :
        calls[p][i].op # "get_item" /\ Committed(calls[p][i]) }

\* C15: a committed write ends the invocation, so an invocation that
\* returned for a valid request has exactly one committed write and it is
\* its last store call; the Tier 2 transaction is issued only after a
\* rejected Tier 1 transaction, the Tier 3 update only after a rejected
\* Tier 2 transaction.
C15_FirstSuccessfulTierEnds ==
    \A p \in Invocations :
        /\ ReturnedOk(p) => MutatingCommits(p) = {Len(calls[p])}
        /\ \A i \in MutatingCommits(p) :
               i = Len(calls[p]) /\ pc[p] = "returned"
        /\ \A i \in 1..Len(calls[p]) :
               /\ calls[p][i].op = "transact_create"
                  => /\ calls[p][1].op = "transact_update"
                     /\ ~ Committed(calls[p][1])
               /\ calls[p][i].op = "update_item"
                  => /\ calls[p][3].op = "transact_create"
                     /\ ~ Committed(calls[p][3])

\* C15 witness: an invocation returned after a rejected Tier 1 and a
\* committed Tier 2, its only committed write.
C15_Witness ==
    \E p \in Invocations :
        /\ ReturnedOk(p)
        /\ Len(calls[p]) = 3
        /\ ~ Committed(calls[p][1])
        /\ MutatingCommits(p) = {3}

\* Item holds attribute a with value v.
Reads(item, a, v) == a \in DOMAIN item /\ item[a] = v

\* C16: the Tier 1 step of a call changes neither table when its
\* transaction is rejected; when the transaction commits, the Finding and
\* the History record both read the request's remediationStatus, both read
\* the request's error when it has one, and the Finding's executionId is
\* the request's.
C16_Tier1IsAtomic ==
    [][ \A p \in Invocations :
          (pc[p] = "idle" /\ pc'[p] # "idle" /\ validate(req'[p]))
          => LET r == req'[p]
                 c == calls'[p][1]
                 fk == FindingKey(r.finding_type, r.finding_id)
                 hk == HistoryKey(r.finding_type, r.finding_id,
                                  r.execution_id)
             IN /\ c.op = "transact_update"
                /\ ~ Committed(c)
                   => (findings' = findings /\ history' = history)
                /\ Committed(c)
                   => /\ fk \in DOMAIN findings' /\ hk \in DOMAIN history'
                      /\ Reads(findings'[fk], "remediationStatus",
                               r.remediation_status)
                      /\ Reads(findings'[fk], "executionId", r.execution_id)
                      /\ Reads(history'[hk], "remediationStatus",
                               r.remediation_status)
                      /\ r.error # NoValue
                         => /\ Reads(findings'[fk], "error", r.error)
                            /\ Reads(history'[hk], "error", r.error) ]_vars

\* C16 witness: a call carrying an error committed its Tier 1 transaction;
\* both records read FAILED and the error.
C16_Witness ==
    \E p \in Invocations :
        /\ ReturnedOk(p)
        /\ Len(calls[p]) = 1
        /\ Committed(calls[p][1])
        /\ req[p].remediation_status = "FAILED"
        /\ req[p].error = "err"
        /\ findings[ReqFindingKey(p)]["error"] = "err"
        /\ history[ReqHistoryKey(p)]["error"] = "err"
        /\ history[ReqHistoryKey(p)]["remediationStatus"] = "FAILED"

\* The metadata attributes a History record has a request field for.
MetadataFields ==
    {"accountId", "resourceId", "resourceType", "severity", "region"}

\* The field of the request that build_create_item stores under a.
RequestField(r, a) ==
    CASE a = "accountId" -> r.account_id
      [] a = "resourceId" -> r.resource_id
      [] a = "resourceType" -> r.resource_type
      [] a = "severity" -> r.severity
      [] a = "region" -> r.region

\* Invocation p read the Finding item and then created the History record.
CreatedAfterRead(p) ==
    /\ Len(calls[p]) >= 3
    /\ calls[p][2].op = "get_item"
    /\ calls[p][2].result = "ok" /\ calls[p][2].findingExisted
    /\ Committed(calls[p][3]) /\ PutsHistory(calls[p][3])

\* C17: a History record created in Tier 2 after a successful read of the
\* Finding record holds, for each of accountId, resourceId, resourceType,
\* severity and region that the Finding has and the request leaves empty,
\* the Finding's value, and holds every other harvested attribute of the
\* Finding as well.
C17_HistoryCarriesFindingMetadata ==
    \A p \in Invocations :
        CreatedAfterRead(p)
        => LET f == findings[ReqFindingKey(p)]
               h == history[ReqHistoryKey(p)]
           IN /\ \A a \in MetadataFields \cap DOMAIN f :
                    RequestField(req[p], a) = NoValue => Reads(h, a, f[a])
              /\ \A a \in ((DOMAIN f) \cap PartialFindingFields)
                              \ NamedHistoryFields :
                    Reads(h, a, f[a])

CanonicalStatuses == {NOT_STARTED, IN_PROGRESS, SUCCESS, FAILED}

\* C19: for every input, None and the empty string and unrecognized text
\* included, a call of map_remediation_status returns, and what it returns
\* is one of NOT_STARTED, IN_PROGRESS, SUCCESS, FAILED.
C19_MapIsTotal ==
    args.fn = "map_remediation_status"
    => /\ ~ result.returned => ENABLED call_map_remediation_status
       /\ result.returned => result.value \in CanonicalStatuses

\* C19 witness: text that is no known word was mapped to FAILED.
C19_Witness ==
    /\ args.fn = "map_remediation_status"
    /\ args.status = Str(UNKNOWN_STATUS)
    /\ result.returned
    /\ result.value = FAILED

\* chars spells word w, letter case apart.
SameIgnoringCase(chars, w) ==
    /\ Len(chars) = Len(w)
    /\ \A i \in 1..Len(w) : chars[i] = w[i] \/ chars[i] = lower_char(w[i])

\* C20: map_remediation_status gives NOT_STARTED for None and for the empty
\* string; SUCCESS and NOT_STARTED, in any letter case, give themselves in
\* upper case; QUEUED, RUNNING and IN_PROGRESS, in any letter case, give
\* IN_PROGRESS; every other input gives FAILED.
C20_MapFollowsRules ==
    (args.fn = "map_remediation_status" /\ result.returned)
    => LET status == args.status
       IN result.value =
            IF status.isNone \/ Len(status.chars) = 0 THEN NOT_STARTED
            ELSE IF SameIgnoringCase(status.chars, SUCCESS) THEN SUCCESS
            ELSE IF SameIgnoringCase(status.chars, NOT_STARTED)
                 THEN NOT_STARTED
            ELSE IF \E w \in {QUEUED, RUNNING, IN_PROGRESS} :
                        SameIgnoringCase(status.chars, w)
                 THEN IN_PROGRESS
            ELSE FAILED

\* C20 witness: "Queued" was mapped to IN_PROGRESS.
C20_Witness ==
    /\ args.fn = "map_remediation_status"
    /\ args.status = Str(<<"Q", "u", "e", "u", "e", "d">>)
    /\ result.returned
    /\ result.value = IN_PROGRESS

\* The epoch second of a UTC timestamp, counted from the calendar: the days
\* of the whole years since 1970, of the whole months of its year, and of
\* its month, 86400 seconds each, and the seconds of its time of day.
YearLength(y) ==
    IF y % 400 = 0 THEN 366 ELSE IF y % 100 = 0 THEN 365
    ELSE IF y % 4 = 0 THEN 366 ELSE 365

MonthLength(y, m) ==
    IF m = 2 THEN YearLength(y) - 337
    ELSE IF m \in {4, 6, 9, 11} THEN 30 ELSE 31

EpochSecond(ts) ==
    LET years[y \in 1970..ts.date[1]] ==
            IF y = 1970 THEN 0 ELSE years[y - 1] + YearLength(y - 1)
        months[m \in 1..ts.date[2]] ==
            IF m = 1 THEN 0 ELSE months[m - 1] + MonthLength(ts.date[1], m - 1)
    IN  (years[ts.date[1]] + months[ts.date[2]] + ts.date[3] - 1) * 86400
        + ts.time[1] * 3600 + ts.time[2] * 60 + ts.time[3]

UtcTimestamp(y, mo, d, h, mi, sec) ==
    [date |-> <<y, mo, d>>, time |-> <<h, mi, sec>>, fraction |-> << >>,
     suffix |-> "Z"]

DefaultRetention(environ) ==
    \/ "HISTORY_TTL_DAYS" \notin DOMAIN environ
    \/ environ = Attr("HISTORY_TTL_DAYS", <<"3", "6", "5">>)

CalledOn2024NewYear ==
    /\ args.fn = "calculate_ttl_timestamp"
    /\ args.timestamp = UtcTimestamp(2024, 1, 1, 0, 0, 0)
    /\ DefaultRetention(args.environ)
    /\ result.returned

\* C21 as stated: calculate_ttl_timestamp applied to 2024-01-01T00:00:00Z
\* with a retention of 365 days returns the epoch timestamp of
\* 2025-01-01T00:00:00Z (1735689600).
C21_Original_ReturnsNewYear2025 ==
    CalledOn2024NewYear => result.value = 1735689600

\* C21 amended: calculate_ttl_timestamp applied to 2024-01-01T00:00:00Z with
\* a retention of 365 days returns the epoch timestamp of
\* 2024-12-31T00:00:00Z (1735603200), 365 days into the leap year 2024.
C21_ReturnsLastDayOf2024 ==
    CalledOn2024NewYear =>
        /\ result.value = 1735603200
        /\ result.value = EpochSecond(UtcTimestamp(2024, 12, 31, 0, 0, 0))
        /\ result.value # EpochSecond(UtcTimestamp(2025, 1, 1, 0, 0, 0))

C21_Witness ==
    /\ CalledOn2024NewYear
    /\ "HISTORY_TTL_DAYS" \notin DOMAIN args.environ
    /\ result.value = 1735603200

\* C22: calculate_ttl_timestamp returns the epoch second of its UTC
\* timestamp plus exactly d * 86400 seconds for the configured retention of
\* d days (365 when none is configured), whatever the date, the time and
\* the fraction of the second; and the expireAt of a created History record
\* is that value for the record's own lastUpdatedTime.
C22_ExpiryIsTimestampPlusRetention ==
    /\ (args.fn = "calculate_ttl_timestamp" /\ result.returned) =>
          /\ "HISTORY_TTL_DAYS" \notin DOMAIN args.environ =>
                result.value = EpochSecond(args.timestamp) + 365 * 86400
          /\ \A d \in {0, 1, 365, 366, 730} :
                ttl_days(args.environ) = d =>
                    result.value = EpochSecond(args.timestamp) + d * 86400
          /\ ttl_days(args.environ) \in {0, 1, 365, 366, 730}
    /\ (args.fn = "build_create_item" /\ result.returned) =>
          /\ result.value.attrs["lastUpdatedTime"] = args.timestamp
          /\ result.value.attrs["expireAt"]
               = EpochSecond(result.value.attrs["lastUpdatedTime"])
                 + 365 * 86400

C22_Witness ==
    /\ args.fn = "calculate_ttl_timestamp"
    /\ result.returned
    /\ args.timestamp = [date |-> <<2024, 2, 29>>, time |-> <<23, 59, 59>>,
                         fraction |-> <<999999>>, suffix |-> "Z"]
    /\ args.environ = Attr("HISTORY_TTL_DAYS", <<"3", "6", "6">>)
    /\ result.value = EpochSecond(UtcTimestamp(2025, 3, 1, 23, 59, 59))

\* C23 as stated: with SECRETS_CACHE_TTL_SECONDS unset, after a successful
\* fetch of a secret at time t, the next call for the same secret at a time
\* before t + 3600 seconds (no clear_cache in between) returns the cached
\* value without calling the secrets store.
C23_CachedForOneHour ==
    [][(/\ args.fn = "get_secret_value_cached"
        /\ result.returned /\ result.fetched
        /\ args'.fn = "get_secret_value_cached"
        /\ args'.secret_name = args.secret_name
        /\ result' # result
        /\ result'.at < result.at + 3600)
       => (/\ result'.returned
           /\ ~ result'.fetched
           /\ result'.value = result.value)]_vars

\* Finding.Workflow.Status of an event is NOTIFIED.
WorkflowStatusIsNotified(event) ==
    /\ event.hasFinding /\ event.workflowIsDict
    /\ event.workflowStatus = "NOTIFIED"

NotifiedWorkflowEvent(event) ==
    /\ WorkflowStatusIsNotified(event)
    /\ event.EventType # "Security Hub Findings - Custom Action"
    /\ event.EventType # "Security Hub Findings - API Action"

HandlerPassedNotification ==
    /\ args.fn = "lambda_handler"
    /\ result # NoResult
    /\ result.stage \in {"update", "resolve", "returned"}

\* C24: the handler's is_notified_workflow is true exactly when
\* Finding.Workflow.Status is NOTIFIED and EventType is neither
\* "Security Hub Findings - Custom Action" nor
\* "Security Hub Findings - API Action"; the engine is called, and the
\* Finding and History tables change, only in runs of the handler whose
\* event carries a Finding and is not such a notified workflow.
C24_NotifiedWorkflowIsNotWritten ==
    /\ [](HandlerPassedNotification =>
            (result.notified_workflow <=> NotifiedWorkflowEvent(args.event)))
    /\ [](\A p \in Invocations : pc[p] # "idle" \/ calls[p] # << >> =>
            /\ args.event.hasFinding
            /\ ~ NotifiedWorkflowEvent(args.event))
    /\ [][findings' # findings \/ history' # history =>
            /\ args.event.hasFinding
            /\ ~ NotifiedWorkflowEvent(args.event)]_vars

\* C24 witness: the handler has returned for a notified workflow (an
\* imported finding whose Workflow.Status is NOTIFIED) without any call of
\* the engine.
C24_Witness ==
    /\ HandlerPassedNotification
    /\ result.returned
    /\ result.notified_workflow
    /\ args.event.workflowStatus = "NOTIFIED"
    /\ args.event.EventType = "Security Hub Findings - Imported"
    /\ \A p \in Invocations : pc[p] = "idle" /\ calls[p] = << >>

EventStateIsSuccess ==
    upper(args.event.State) = SUCCESS

\* C30: an error raised by update_remediation_status_and_history never
\* aborts the handler: _update_finding_remediation_status catches it and
\* returns, the handler goes on to its last statement, and finding.resolve
\* is called there exactly when the event's state is SUCCESS.
C30_EngineErrorDoesNotAbortHandler ==
    (args.fn = "lambda_handler" /\ result # NoResult /\ pc[1] = "raised") =>
        /\ result.stage = "update" =>
              ENABLED update_finding_remediation_status_end
        /\ result.stage = "resolve" =>
              /\ result.caught
              /\ ENABLED lambda_handler_end(TRUE)
        /\ result.stage \in {"returned", "raised"} =>
              /\ result.caught
              /\ result.resolve_called <=> EventStateIsSuccess
        /\ (result.stage = "raised" => result.resolve_called)

\* C30 witness: the engine raised on a SUCCESS event and the handler has
\* returned after calling finding.resolve.
C30_Witness ==
    /\ args.fn = "lambda_handler"
    /\ result # NoResult
    /\ pc[1] = "raised"
    /\ result.returned
    /\ result.caught
    /\ result.resolve_called
    /\ EventStateIsSuccess

MetadataAttributes ==
    {"accountId", "resourceId", "resourceType", "resourceTypeNormalized",
     "severity", "region", "lastUpdatedBy"}

\* The enrichment read of invocation p returned a Finding record that
\* carries at least one of the metadata attributes.
ReadCarriedMetadata(p) ==
    /\ calls[p][2].result = "ok"
    /\ calls[p][2].findingExisted
    /\ ReqFindingKey(p) \in DOMAIN findings
    /\ (DOMAIN findings[ReqFindingKey(p)]) \cap MetadataAttributes # {}

\* C25: the Tier 2 transaction contains the Finding update exactly when
\* the enrichment read returned a Finding record carrying at least one of
\* the seven metadata attributes; otherwise (failed read, no record, record
\* without these attributes) it contains only the conditional History Put,
\* and when it commits the Finding table is left as it was.
C25_Tier2UpdatesFindingIffMetadata ==
    [][\A p \in Invocations :
         (pc[p] = "tier2" /\ pc'[p] # "tier2") =>
            LET c == calls'[p][Len(calls'[p])]
            IN  /\ Len(calls'[p]) = 3
                /\ c.op = "transact_create"
                /\ PutsHistory(c)
                /\ WritesFinding(c) <=> ReadCarriedMetadata(p)
                /\ Committed(c) => ~ c.historyExisted
                /\ ~ ReadCarriedMetadata(p) =>
                      /\ c.writes = {<<"Put", "history">>}
                      /\ Committed(c) =>
                            /\ findings' = findings
                            /\ ReqHistoryKey(p) \in DOMAIN history']_vars

\* C25 witness: the read returned a Finding record without any metadata
\* attribute and the Tier 2 transaction, holding only the History Put,
\* committed.
C25_Witness ==
    \E p \in Invocations :
        /\ Len(calls[p]) = 3
        /\ calls[p][2].result = "ok" /\ calls[p][2].findingExisted
        /\ ~ ReadCarriedMetadata(p)
        /\ Committed(calls[p][3])
        /\ calls[p][3].writes = {<<"Put", "history">>}
        /\ pc[p] = "returned"

\* The error attribute of the record under key k, NoValue when the table
\* holds no such record or the record has no error attribute.
StoredError(table, k) ==
    IF k \in DOMAIN table /\ "error" \in DOMAIN table[k]
    THEN table[k]["error"] ELSE NoValue

\* A step of an invocation whose request carries no error leaves the stored
\* error of both records of its triple as it was.
NoErrorStepKeepsStoredError ==
    \A p \in Invocations :
        (pc[p] # "idle" /\ calls'[p] # calls[p] /\ req[p].error = NoValue) =>
            /\ StoredError(findings, ReqFindingKey(p)) # NoValue =>
                  StoredError(findings', ReqFindingKey(p))
                      = StoredError(findings, ReqFindingKey(p))
            /\ StoredError(history, ReqHistoryKey(p)) # NoValue =>
                  StoredError(history', ReqHistoryKey(p))
                      = StoredError(history, ReqHistoryKey(p))

\* C26: an update whose request carries no error never clears a stored
\* error on the Finding or the History record; so after a FAILED update with
\* error E followed by a SUCCESS update without error for the same triple,
\* both returning normally, both records read remediationStatus SUCCESS
\* together with error E.
C26_SuccessKeepsEarlierError ==
    /\ [][NoErrorStepKeepsStoredError]_vars
    /\ [](\A p \in Invocations :
            (/\ p + 1 \in Invocations
             /\ ReturnedOk(p) /\ ReturnedOk(p + 1)
             /\ req[p].remediation_status = "FAILED"
             /\ req[p].error # NoValue
             /\ req[p + 1].remediation_status = "SUCCESS"
             /\ req[p + 1].error = NoValue
             /\ ReqHistoryKey(p) = ReqHistoryKey(p + 1)
             /\ \A q \in Invocations : q < p \/ q > p + 1 => pc[q] = "idle")
            => /\ ReqFindingKey(p) \in DOMAIN findings
               /\ Reads(findings[ReqFindingKey(p)], "remediationStatus",
                        "SUCCESS")
               /\ Reads(findings[ReqFindingKey(p)], "error", req[p].error)
               /\ ReqHistoryKey(p) \in DOMAIN history
               /\ Reads(history[ReqHistoryKey(p)], "remediationStatus",
                        "SUCCESS")
               /\ Reads(history[ReqHistoryKey(p)], "error", req[p].error))

\* The part of C26 that holds on its own: no step of a request without
\* error changes a stored error.
C26_StoredErrorIsKept == [][NoErrorStepKeepsStoredError]_vars

\* The attributes of a History record that are written when it is created.
CreationAttributes ==
    {"executionId", "lastUpdatedTime", "lastUpdatedTime#findingId",
     "lastUpdatedBy", "expireAt"}

\* The step is a committed Tier 1 transaction of invocation p.
Tier1Commits(p) ==
    /\ pc[p] = "idle"
    /\ Len(calls'[p]) = 1
    /\ calls'[p][1].op = "transact_update"
    /\ Committed(calls'[p][1])

\* C27: a committed Tier 1 update finds the History record of its triple
\* and changes on it only remediationStatus, and error when the request
\* supplies one: executionId, lastUpdatedTime, lastUpdatedTime#findingId,
\* lastUpdatedBy, expireAt and every other attribute keep the values they
\* had, and no other History record changes.
C27_Tier1ChangesOnlyStatusAndError ==
    [][\A p \in Invocations :
         Tier1Commits(p) =>
            LET k == HistoryKey(req'[p].finding_type, req'[p].finding_id,
                                req'[p].execution_id)
                written == {"remediationStatus"}
                           \cup (IF req'[p].error # NoValue THEN {"error"}
                                 ELSE {})
            IN  /\ k \in DOMAIN history
                /\ CreationAttributes \subseteq DOMAIN history[k]
                /\ DOMAIN history' = DOMAIN history
                /\ \A j \in DOMAIN history \ {k} : history'[j] = history[j]
                /\ DOMAIN history'[k] = (DOMAIN history[k]) \cup written
                /\ \A a \in (DOMAIN history[k]) \ written :
                      history'[k][a] = history[k][a]
                /\ history'[k]["remediationStatus"]
                      = req'[p].remediation_status
                /\ req'[p].error # NoValue =>
                      history'[k]["error"] = req'[p].error]_vars

\* C27 witness: a later call has updated, through Tier 1 and with an error
\* message, the History record an earlier call created, and the record
\* still carries the time of its creation.
C27_Witness ==
    \E p \in Invocations :
        /\ p + 1 \in Invocations
        /\ Len(calls[p]) = 3 /\ Committed(calls[p][3])
        /\ PutsHistory(calls[p][3])
        /\ req[p].remediation_status = "SUCCESS"
        /\ Len(calls[p + 1]) = 1 /\ Committed(calls[p + 1][1])
        /\ ReqHistoryKey(p) \in DOMAIN history
        /\ Reads(history[ReqHistoryKey(p)], "remediationStatus", "FAILED")
        /\ Reads(history[ReqHistoryKey(p)], "error", "err")
        /\ Reads(history[ReqHistoryKey(p)], "lastUpdatedTime",
                 calls[p][3].time)

\* C28: for a fixed findingType, two requests with different
\* (findingId, executionId) pairs address different History keys.
C28_DistinctPairsDistinctKeys ==
    (args.fn = "HistoryKey" /\ result.returned) =>
        (args.first # args.second => result.value[1] # result.value[2])

Rejected(c) == c.result = "ConditionalCheckFailed"

\* C29: against a store that rejects calls only for a failed condition, no
\* invocation raises, a rejected Tier 1 is followed by the read and Tier 2,
\* a rejected Tier 2 by Tier 3, the Tier 3 update always commits, and from
\* some point on every invocation that was called has returned.
C29_ReturnsWhenOnlyConditionsFail ==
    /\ [](\A p \in Invocations :
            /\ pc[p] # "raised"
            /\ \A i \in 1..Len(calls[p]) :
                  Committed(calls[p][i]) \/ Rejected(calls[p][i])
            /\ (Len(calls[p]) >= 1 /\ Rejected(calls[p][1])) =>
                  pc[p] \in {"read", "tier2", "tier3", "returned"}
            /\ (Len(calls[p]) >= 3 /\ Rejected(calls[p][3])) =>
                  pc[p] \in {"tier3", "returned"}
            /\ Len(calls[p]) = 4 =>
                  /\ calls[p][4].op = "update_item"
                  /\ Committed(calls[p][4])
                  /\ pc[p] = "returned")
    /\ <>[](\A p \in Invocations : pc[p] \in {"idle", "returned"})

\* C29 witness: an invocation whose Tier 1 and Tier 2 transactions were
\* both rejected has returned after its Tier 3 update committed.
C29_Witness ==
    \E p \in Invocations :
        /\ Len(calls[p]) = 4
        /\ Rejected(calls[p][1]) /\ Rejected(calls[p][3])
        /\ Committed(calls[p][4])
        /\ pc[p] = "returned"

====
